---- MODULE Spec2Model ----
(***************************************************************************)
(* Second-order Markov chain of src/markov.rs: the transition table        *)
(* (Markov), its weighted entries (Entry), pruning (Markov::clean) and the *)
(* lazy generator (Chain).                                                 *)
(***************************************************************************)
EXTENDS Integers, Sequences, FiniteSets, TLC

\* ------------------------------------------------------------------ bounds
\* Longest word sequence handed to insert_sequence (all shorter ones too).
MaxLen == 1
\* Length of the one long sequence a a a b b a ... also handed to insert_sequence.
DeepLen == 6
\* Number of insert_sequence calls in a run.
MaxSeqs == 3
\* Number of raw Markov::insert calls in a run of SpecRaw.
MaxRawInserts == 3
\* Number of Chain::next calls made on one generator.
MaxSteps == 4

\* ------------------------------------------------------------------ tokens
\* enum Word { Start, End, Word(String) }: compared by tag and text.
Start == <<"Start">>
End == <<"End">>
Word(text) == <<"Word", text>>

Strings == {"a", "b"}
Tokens == {Start, End} \cup {Word(s) : s \in Strings}
\* The tokens handed to the raw Markov::insert in SpecRaw.
RawTokens == {Start, End, Word("a")}

WORD_COUNT == 2
START_WORDS == <<Start, Start>>

IsWord(t) == t[1] = "Word"
TextOf(t) == t[2]

\* ------------------------------------------------------- rand::WeightedIndex
\* A WeightedIndex<usize> is modelled by the weights it samples by.
RECURSIVE SumSeq(_)
SumSeq(ws) == IF ws = <<>> THEN 0 ELSE Head(ws) + SumSeq(Tail(ws))

\* WeightedIndex::new: Err(NoItem) on no weight, Err(AllWeightsZero) on a zero
\* total (a usize is never negative), otherwise the index over the weights.
WeightedIndexNew(ws) ==
    IF Len(ws) = 0 THEN [ok |-> FALSE, dist |-> <<>>]
    ELSE IF SumSeq(ws) = 0 THEN [ok |-> FALSE, dist |-> <<>>]
    ELSE [ok |-> TRUE, dist |-> ws]

\* WeightedIndex::update_weights(&[(i, w)]): one weight replaced in place; the
\* index is left as it was when the new total would be zero.
UpdateWeights(dist, i, w) ==
    IF i > Len(dist) THEN [ok |-> FALSE, dist |-> dist]
    ELSE IF SumSeq([dist EXCEPT ![i] = w]) = 0 THEN [ok |-> FALSE, dist |-> dist]
    ELSE [ok |-> TRUE, dist |-> [dist EXCEPT ![i] = w]]

\* The indices dist.sample(rng) can return: those of positive weight.
SampleIndices(dist) == {i \in 1..Len(dist) : dist[i] > 0}

\* -------------------------------------------------------------------- Entry
Weights(pairs) == [i \in 1..Len(pairs) |-> pairs[i][2]]

\* Entry::gen_new_weights
GenNewWeights(e) == WeightedIndexNew(Weights(e.weight_pairs))

\* Entry::new
EntryNew(word) ==
    [weight_pairs |-> <<<<word, 1>>>>, dist |-> WeightedIndexNew(<<1>>).dist]

\* The first index of weight_pairs holding new_word, 0 when there is none.
FindPair(pairs, new_word) ==
    LET hits == {i \in 1..Len(pairs) : pairs[i][1] = new_word}
    IN  IF hits = {} THEN 0 ELSE CHOOSE i \in hits : \A j \in hits : i <= j

\* Mutant: the weight is counted up without update_weights.
EntryInsert_StaleDist(e, new_word) ==
    LET i == FindPair(e.weight_pairs, new_word)
    IN  IF i > 0
        THEN [entry |-> [e EXCEPT !.weight_pairs[i] = <<new_word, @[2] + 1>>],
              panic |-> FALSE]
        ELSE LET pairs == Append(e.weight_pairs, <<new_word, 1>>)
                 new == GenNewWeights([e EXCEPT !.weight_pairs = pairs])
             IN  [entry |-> [weight_pairs |-> pairs,
                             dist |-> IF new.ok THEN new.dist ELSE e.dist],
                  panic |-> ~new.ok]

\* Entry::insert: the entry after the call and whether an expect failed.
EntryInsert(e, new_word) ==
    LET i == FindPair(e.weight_pairs, new_word)
    IN  IF i > 0
        THEN LET weight == e.weight_pairs[i][2] + 1
                 pairs == [e.weight_pairs EXCEPT ![i] = <<new_word, weight>>]
                 upd == UpdateWeights(e.dist, i, weight)
             IN  [entry |-> [weight_pairs |-> pairs, dist |-> upd.dist],
                  panic |-> ~upd.ok]
        ELSE LET pairs == Append(e.weight_pairs, <<new_word, 1>>)
                 new == GenNewWeights([e EXCEPT !.weight_pairs = pairs])
             IN  [entry |-> [weight_pairs |-> pairs,
                             dist |-> IF new.ok THEN new.dist ELSE e.dist],
                  panic |-> ~new.ok]

\* ------------------------------------------------------------------- Markov
\* Markov::new
MarkovNew == << >>

Put(entries, k, e) ==
    [c \in DOMAIN entries \cup {k} |-> IF c = k THEN e ELSE entries[c]]

Remove(entries, k) == [c \in DOMAIN entries \ {k} |-> entries[c]]

\* Mutant: an occupied slot is overwritten with a fresh entry.
MarkovInsert_Overwrite(entries, index, word) ==
    [entries |-> Put(entries, index, EntryNew(word)), panic |-> FALSE]

\* Markov::insert: the table after the call and whether it panicked.
MarkovInsert(entries, index, word) ==
    IF index \in DOMAIN entries
    THEN LET r == EntryInsert(entries[index], word)
         IN  [entries |-> Put(entries, index, r.entry), panic |-> r.panic]
    ELSE [entries |-> Put(entries, index, EntryNew(word)), panic |-> FALSE]

\* Mutant: prevs keeps its first element instead of shifting.
RECURSIVE InsertSequenceLoop_NoShift(_, _, _)
InsertSequenceLoop_NoShift(st, seq, i) ==
    IF i > Len(seq) \/ st.panic THEN st
    ELSE LET cur == Word(seq[i])
             index == <<st.prevs[1], st.prevs[2]>>
             r == MarkovInsert(st.entries, index, cur)
         IN  InsertSequenceLoop_NoShift(
                 [entries |-> r.entries,
                  prevs |-> <<st.prevs[1], cur>>,
                  calls |-> Append(st.calls, <<index, cur>>),
                  panic |-> r.panic],
                 seq, i + 1)

\* The for loop of Markov::insert_sequence from its i-th word on; st holds the
\* table, prevs, the insert calls made so far and whether one panicked.
RECURSIVE InsertSequenceLoop(_, _, _)
InsertSequenceLoop(st, seq, i) ==
    IF i > Len(seq) \/ st.panic THEN st
    ELSE LET cur == Word(seq[i])
             index == <<st.prevs[1], st.prevs[2]>>
             r == MarkovInsert(st.entries, index, cur)
         IN  InsertSequenceLoop(
                 [entries |-> r.entries,
                  prevs |-> <<st.prevs[2], cur>>,
                  calls |-> Append(st.calls, <<index, cur>>),
                  panic |-> r.panic],
                 seq, i + 1)

\* Mutant: the terminal insert is keyed by the context shifted past End.
InsertSequence_EndInKey(entries, seq) ==
    LET st == InsertSequenceLoop(
                  [entries |-> entries, prevs |-> <<Start, Start>>,
                   calls |-> <<>>, panic |-> FALSE], seq, 1)
        index == <<st.prevs[2], End>>
        r == MarkovInsert(st.entries, index, End)
    IN  [entries |-> r.entries, calls |-> Append(st.calls, <<index, End>>),
         panic |-> r.panic]

\* Mutant: the terminal insert of End is left out.
InsertSequence_NoEnd(entries, seq) ==
    LET st == InsertSequenceLoop(
                  [entries |-> entries, prevs |-> <<Start, Start>>,
                   calls |-> <<>>, panic |-> FALSE], seq, 1)
    IN  [entries |-> st.entries, calls |-> st.calls, panic |-> st.panic]

\* Markov::insert_sequence
InsertSequence(entries, seq) ==
    LET st == InsertSequenceLoop(
                  [entries |-> entries, prevs |-> <<Start, Start>>,
                   calls |-> <<>>, panic |-> FALSE], seq, 1)
        index == <<st.prevs[1], st.prevs[2]>>
        r == MarkovInsert(st.entries, index, End)
    IN  IF st.panic THEN [entries |-> st.entries, calls |-> st.calls, panic |-> TRUE]
        ELSE [entries |-> r.entries, calls |-> Append(st.calls, <<index, End>>),
              panic |-> r.panic]

\* Mutant: the comparison is < instead of <=, so a weight of 1 is kept.
KeepPair_KeepOnes(pair) == ~(pair[2] < 1)

\* The closure of retain in Markov::clean: a start successor is kept when its
\* weight is above 1.
KeepPair(pair) == ~(pair[2] <= 1)

\* The words retain pushes on to_remove, in the order of weight_pairs.
ToRemove(pairs) ==
    LET dropped == SelectSeq(pairs, LAMBDA p : ~KeepPair(p))
    IN  [i \in 1..Len(dropped) |-> dropped[i][1]]

\* Markov::clean, the if let block: the start entry pruned and its dist
\* rebuilt; panic when gen_new_weights().unwrap() meets an Err, which leaves
\* the pruned weight_pairs beside the dist of before.
CleanStart(entries) ==
    IF START_WORDS \in DOMAIN entries
    THEN LET start == entries[START_WORDS]
             kept == SelectSeq(start.weight_pairs, KeepPair)
             new == GenNewWeights([start EXCEPT !.weight_pairs = kept])
         IN  [entries |-> Put(entries, START_WORDS,
                              [weight_pairs |-> kept,
                               dist |-> IF new.ok THEN new.dist ELSE start.dist]),
              to_remove |-> ToRemove(start.weight_pairs),
              panic |-> ~new.ok]
    ELSE [entries |-> entries, to_remove |-> <<>>, panic |-> FALSE]

\* for k in to_remove { self.entries.remove(&[Word::Start, k]); }
RECURSIVE RemoveStartSuccessors(_, _)
RemoveStartSuccessors(entries, to_remove) ==
    IF to_remove = <<>> THEN entries
    ELSE RemoveStartSuccessors(Remove(entries, <<Start, Head(to_remove)>>),
                               Tail(to_remove))

\* The address of the entry stored under key: the table is not changed between
\* the traversal and the final retain, so each stored entry keeps one address
\* of its own, named here by its key.
AddressOf(entries, key) == key

\* Mutant: only the first successor of a visited entry is followed.
Pushes_FirstOnly(key, pairs) ==
    [i \in 1..(IF Len(pairs) > 0 THEN 1 ELSE 0) |-> <<key[2], pairs[i][1]>>]

\* What the traversal pushes for one visited entry: [key[1], word] per pair.
Pushes(key, pairs) == [i \in 1..Len(pairs) |-> <<key[2], pairs[i][1]>>]

\* The while let loop of Markov::clean: to_visit is a stack popped at its end.
RECURSIVE Traverse(_, _, _)
Traverse(entries, visited, to_visit) ==
    IF to_visit = <<>> THEN visited
    ELSE LET key == to_visit[Len(to_visit)]
             rest == SubSeq(to_visit, 1, Len(to_visit) - 1)
         IN  IF key \notin DOMAIN entries THEN Traverse(entries, visited, rest)
             ELSE IF AddressOf(entries, key) \in visited
                  THEN Traverse(entries, visited, rest)
                  ELSE Traverse(entries,
                                visited \cup {AddressOf(entries, key)},
                                rest \o Pushes(key, entries[key].weight_pairs))

\* Mutant: the pruning of weights of 1 is applied to every kept entry.
Retain_PruneAll(entries, visited) ==
    [c \in {k \in DOMAIN entries : AddressOf(entries, k) \in visited} |->
        [entries[c] EXCEPT !.weight_pairs = SelectSeq(@, KeepPair),
                           !.dist = Weights(SelectSeq(entries[c].weight_pairs, KeepPair))]]

\* self.entries.retain(|_, v| visited.contains(&(v as *const _)))
Retain(entries, visited) ==
    [c \in {k \in DOMAIN entries : AddressOf(entries, k) \in visited} |-> entries[c]]

\* Mutant: the traversal runs before the start entry is pruned.
Clean_TraverseFirst(entries) ==
    LET old_len == Cardinality(DOMAIN entries)
        visited == Traverse(entries, {}, <<START_WORDS>>)
        s == CleanStart(entries)
        removed == RemoveStartSuccessors(s.entries, s.to_remove)
        kept == Retain(removed, visited)
    IN  IF s.panic THEN [entries |-> s.entries, ret |-> 0, panic |-> TRUE]
        ELSE [entries |-> kept,
              ret |-> old_len - Cardinality(DOMAIN kept),
              panic |-> FALSE]

\* Mutant: old_len is taken after the start successors were removed.
Clean_LateLen(entries) ==
    LET s == CleanStart(entries)
        removed == RemoveStartSuccessors(s.entries, s.to_remove)
        old_len == Cardinality(DOMAIN removed)
        visited == Traverse(removed, {}, <<START_WORDS>>)
        kept == Retain(removed, visited)
    IN  IF s.panic THEN [entries |-> s.entries, ret |-> 0, panic |-> TRUE]
        ELSE [entries |-> kept,
              ret |-> old_len - Cardinality(DOMAIN kept),
              panic |-> FALSE]

\* Markov::clean: the table after the call, the count returned, and whether the
\* call panicked (then nothing after the unwrap ran).
Clean(entries) ==
    LET old_len == Cardinality(DOMAIN entries)
        s == CleanStart(entries)
        removed == RemoveStartSuccessors(s.entries, s.to_remove)
        visited == Traverse(removed, {}, <<START_WORDS>>)
        kept == Retain(removed, visited)
    IN  IF s.panic THEN [entries |-> s.entries, ret |-> 0, panic |-> TRUE]
        ELSE [entries |-> kept,
              ret |-> old_len - Cardinality(DOMAIN kept),
              panic |-> FALSE]

\* -------------------------------------------------------------------- Chain
Some(w) == <<"Some", w>>
None == <<"None">>

\* No generator exists.
NoChain == [alive |-> FALSE, cur_words |-> START_WORDS, rets |-> <<>>]

\* Markov::generate_sequence
GenerateSequence == [alive |-> TRUE, cur_words |-> START_WORDS, rets |-> <<>>]

\* Mutant: sampling End rewinds the generator to (Start, Start).
ChainNext_Restart(entries, ch, i) ==
    IF ch.cur_words \notin DOMAIN entries
    THEN [chain |-> [ch EXCEPT !.rets = Append(@, None)], fatal |-> ""]
    ELSE LET word == entries[ch.cur_words].weight_pairs[i][1]
         IN  IF IsWord(word)
             THEN [chain |-> [ch EXCEPT !.cur_words = <<ch.cur_words[2], word>>,
                                        !.rets = Append(@, Some(TextOf(word)))],
                   fatal |-> ""]
             ELSE [chain |-> [ch EXCEPT !.cur_words = START_WORDS,
                                        !.rets = Append(@, None)],
                   fatal |-> ""]

\* Mutant: the current context is not advanced.
ChainNext_NoAdvance(entries, ch, i) ==
    IF ch.cur_words \notin DOMAIN entries
    THEN [chain |-> [ch EXCEPT !.rets = Append(@, None)], fatal |-> ""]
    ELSE LET word == entries[ch.cur_words].weight_pairs[i][1]
         IN  IF IsWord(word)
             THEN [chain |-> [ch EXCEPT !.rets = Append(@, Some(TextOf(word)))],
                   fatal |-> ""]
             ELSE [chain |-> [ch EXCEPT !.rets = Append(@, None)], fatal |-> ""]

\* Chain::next when dist.sample returned index i: the generator after the call
\* and the fatal failure met, "" when none.
ChainNext(entries, ch, i) ==
    IF ch.cur_words \notin DOMAIN entries
    THEN [chain |-> [ch EXCEPT !.rets = Append(@, None)], fatal |-> ""]
    ELSE LET cur_entry == entries[ch.cur_words]
         IN  IF i > Len(cur_entry.weight_pairs)
             THEN [chain |-> ch, fatal |-> "index out of bounds"]
             ELSE LET word == cur_entry.weight_pairs[i][1]
                      cur == <<ch.cur_words[2], word>>
                  IN  IF IsWord(word)
                      THEN [chain |-> [ch EXCEPT !.cur_words = cur,
                                                 !.rets = Append(@, Some(TextOf(word)))],
                            fatal |-> ""]
                      ELSE IF word = End
                      THEN [chain |-> [ch EXCEPT !.cur_words = cur,
                                                 !.rets = Append(@, None)],
                            fatal |-> ""]
                      ELSE [chain |-> [ch EXCEPT !.cur_words = cur],
                            fatal |-> "unreachable"]

\* The indices Entry::get_random can draw for the current context (one dummy
\* index when the context is absent and nothing is drawn).
Draws(entries, ch) ==
    IF ch.cur_words \in DOMAIN entries
    THEN SampleIndices(entries[ch.cur_words].dist)
    ELSE {0}

\* -------------------------------------------------------------------- state
VARIABLES
    entries,    \* Markov.entries: context -> Entry
    chain,      \* the generator borrowed from the table, if any
    fatal,      \* "" while running, else the panic that ended the program
    last,       \* the last completed table call and what it returned
    nops,       \* insert_sequence (Spec) or insert (SpecRaw) calls made
    ncalls,     \* <<context, token>> -> Markov::insert calls, until a clean
    inserted,   \* the sequences handed to insert_sequence, until a clean
    cleaned     \* clean has been called

vars == <<entries, chain, fatal, last, nops, ncalls, inserted, cleaned>>

\* The word sequences handed to insert_sequence.
RECURSIVE SeqsUpTo(_)
SeqsUpTo(n) == IF n = 0 THEN {<<>>} ELSE SeqsUpTo(n - 1) \cup [1..n -> Strings]

\* a a a b b a a b b ...: its contexts form a chain of DeepLen - 1 hops with
\* a loop at (a, a).
DeepSeq ==
    [i \in 1..DeepLen |->
        IF i <= 3 THEN "a" ELSE IF ((i - 4) \div 2) % 2 = 0 THEN "b" ELSE "a"]

SeqInputs == SeqsUpTo(MaxLen) \cup {DeepSeq}

\* ncalls with the insert calls of one operation counted in.
RECURSIVE Count(_, _)
Count(n, calls) ==
    IF calls = <<>> THEN n
    ELSE LET c == Head(calls)
         IN  Count([k \in DOMAIN n \cup {c} |->
                       IF k = c THEN (IF c \in DOMAIN n THEN n[c] + 1 ELSE 1)
                       ELSE n[k]],
                   Tail(calls))

Init ==
    /\ entries = MarkovNew
    /\ chain = NoChain
    /\ fatal = ""
    /\ last = [op |-> "new", ret |-> 0]
    /\ nops = 0
    /\ ncalls = << >>
    /\ inserted = {}
    /\ cleaned = FALSE

\* A table call needs the table unborrowed: no generator alive.
CanMutate == fatal = "" /\ ~chain.alive

DoInsertSequence(seq) ==
    /\ CanMutate
    /\ nops < MaxSeqs
    /\ LET r == InsertSequence(entries, seq)
       IN  /\ entries' = r.entries
           /\ fatal' = IF r.panic THEN "expect" ELSE ""
           /\ ncalls' = IF cleaned THEN ncalls ELSE Count(ncalls, r.calls)
    /\ last' = [op |-> "insert_sequence", ret |-> 0]
    /\ nops' = nops + 1
    /\ inserted' = IF cleaned THEN inserted ELSE inserted \cup {seq}
    /\ UNCHANGED <<chain, cleaned>>

DoInsert(index, word) ==
    /\ CanMutate
    /\ nops < MaxRawInserts
    /\ LET r == MarkovInsert(entries, index, word)
       IN  /\ entries' = r.entries
           /\ fatal' = IF r.panic THEN "expect" ELSE ""
    /\ ncalls' = IF cleaned THEN ncalls ELSE Count(ncalls, <<<<index, word>>>>)
    /\ last' = [op |-> "insert", ret |-> 0]
    /\ nops' = nops + 1
    /\ UNCHANGED <<chain, inserted, cleaned>>

DoClean ==
    /\ CanMutate
    /\ LET r == Clean(entries)
       IN  /\ entries' = r.entries
           /\ fatal' = IF r.panic THEN "unwrap" ELSE ""
           /\ last' = IF r.panic THEN last ELSE [op |-> "clean", ret |-> r.ret]
    /\ ncalls' = << >>
    /\ inserted' = {}
    /\ cleaned' = TRUE
    /\ UNCHANGED <<chain, nops>>

DoGenerateSequence ==
    /\ CanMutate
    /\ chain' = GenerateSequence
    /\ UNCHANGED <<entries, fatal, last, nops, ncalls, inserted, cleaned>>

DoNext ==
    /\ fatal = ""
    /\ chain.alive
    /\ Len(chain.rets) < MaxSteps
    /\ \E i \in Draws(entries, chain) :
          LET r == ChainNext(entries, chain, i)
          IN  /\ chain' = r.chain
              /\ fatal' = r.fatal
    /\ UNCHANGED <<entries, last, nops, ncalls, inserted, cleaned>>

DoDrop ==
    /\ fatal = ""
    /\ chain.alive
    /\ chain' = NoChain
    /\ UNCHANGED <<entries, fatal, last, nops, ncalls, inserted, cleaned>>

Next ==
    \/ \E seq \in SeqInputs : DoInsertSequence(seq)
    \/ DoClean
    \/ DoGenerateSequence
    \/ DoNext
    \/ DoDrop

Spec == Init /\ [][Next]_vars

NextRaw ==
    \/ \E index \in RawTokens \X RawTokens : \E word \in RawTokens :
          DoInsert(index, word)
    \/ DoClean

SpecRaw == Init /\ [][NextRaw]_vars

\* ------------------------------------------------------------------- claims
\* The weight stored for token in an entry, 0 when it has no pair.
WeightOf(e, token) ==
    SumSeq([i \in 1..Len(e.weight_pairs) |->
               IF e.weight_pairs[i][1] = token THEN e.weight_pairs[i][2] ELSE 0])

\* The insert calls counted for one <<context, token>>, and for one context.
CallsOf(index, token) ==
    IF <<index, token>> \in DOMAIN ncalls THEN ncalls[<<index, token>>] ELSE 0

RECURSIVE SumOver(_, _)
SumOver(S, index) ==
    IF S = {} THEN 0
    ELSE LET t == CHOOSE x \in S : TRUE
         IN  CallsOf(index, t) + SumOver(S \ {t}, index)

\* C1: every stored entry has at least one pair and every stored weight is at
\* least 1; clean never leaves the (Start, Start) entry without a successor.
C1_EntriesNonEmpty ==
    \A c \in DOMAIN entries :
        /\ Len(entries[c].weight_pairs) >= 1
        /\ \A i \in 1..Len(entries[c].weight_pairs) : entries[c].weight_pairs[i][2] >= 1

\* C2: no sequence of insert_sequence calls, clean calls and generator steps
\* reaches a fatal failure (a failed expect or unwrap, the unreachable branch).
C2_NoFatalFailure == fatal = ""

\* C3: with no clean so far, the weights of a context's entry sum to the number
\* of insert calls made for the context, each token's weight is the number of
\* insert calls made for that context and token, and a context with no insert
\* call is absent.
C3_WeightsCountInserts ==
    ~cleaned =>
        \A index \in Tokens \X Tokens :
            IF index \in DOMAIN entries
            THEN /\ SumSeq(Weights(entries[index].weight_pairs)) = SumOver(Tokens, index)
                 /\ SumOver(Tokens, index) >= 1
                 /\ \A t \in Tokens : WeightOf(entries[index], t) = CallsOf(index, t)
            ELSE SumOver(Tokens, index) = 0

\* C3 witness: one context took three inserts, two of them for the same token.
C3_Witness ==
    /\ ~cleaned
    /\ last.op = "insert"
    /\ \E index \in DOMAIN entries :
          /\ SumSeq(Weights(entries[index].weight_pairs)) = 3
          /\ \E t \in Tokens : WeightOf(entries[index], t) = 2

\* The context of the i-th insert of insert_sequence(seq), as the claim
\* numbers them: (Start, Start), (Start, t1), then (t_{i-2}, t_{i-1}).
ContextAt(seq, i) ==
    IF i = 1 THEN <<Start, Start>>
    ELSE IF i = 2 THEN <<Start, Word(seq[1])>>
    ELSE <<Word(seq[i - 2]), Word(seq[i - 1])>>

\* The n + 1 inserts the claim lists for insert_sequence(seq).
ExpectedCalls(seq) ==
    [i \in 1..(Len(seq) + 1) |->
        IF i <= Len(seq) THEN <<ContextAt(seq, i), Word(seq[i])>>
        ELSE <<ContextAt(seq, i), End>>]

\* The table after the insert calls of a list, made one after the other.
RECURSIVE ApplyCalls(_, _)
ApplyCalls(t, calls) ==
    IF calls = <<>> THEN t
    ELSE ApplyCalls(MarkovInsert(t, Head(calls)[1], Head(calls)[2]).entries, Tail(calls))

CallContexts(calls) == {calls[i][1] : i \in 1..Len(calls)}

\* C4: insert_sequence(t1..tn) performs exactly the n + 1 inserts
\* insert(context_i, Word(t_i)), i = 1..n, then insert(context_{n+1}, End), in
\* that order, and changes the entry of no other context.
C4_InsertSequenceCalls ==
    [][\A seq \in SeqInputs :
          DoInsertSequence(seq) =>
              /\ InsertSequence(entries, seq).calls = ExpectedCalls(seq)
              /\ entries' = ApplyCalls(entries, ExpectedCalls(seq))
              /\ \A c \in DOMAIN entries' \ CallContexts(ExpectedCalls(seq)) :
                    c \in DOMAIN entries /\ entries'[c] = entries[c]
              /\ DOMAIN entries \subseteq DOMAIN entries']_vars

\* C4 witness: the long sequence and the empty one have both been inserted.
C4_Witness ==
    /\ last.op = "insert_sequence"
    /\ DeepSeq \in inserted
    /\ <<>> \in inserted
    /\ <<Word("b"), Word("b")>> \in DOMAIN entries
    /\ WeightOf(entries[START_WORDS], End) = 1

\* The successors of a stored context that are left after the start pruning:
\* for (Start, Start) those of weight 2 or more, for any other context all.
SuccessorsLeft(t, c) ==
    {t[c].weight_pairs[i][1] : i \in
        {j \in 1..Len(t[c].weight_pairs) :
            c # START_WORDS \/ t[c].weight_pairs[j][2] >= 2}}

\* The stored contexts a chain of at most n hops from (Start, Start) reaches.
RECURSIVE Within(_, _)
Within(t, n) ==
    IF n = 0 THEN {START_WORDS} \cap DOMAIN t
    ELSE LET S == Within(t, n - 1)
         IN  S \cup {k \in DOMAIN t :
                        \E c \in S : \E w \in SuccessorsLeft(t, c) : k = <<c[2], w>>}

\* The stored contexts a chain of any length reaches.
ChainReachable(t) == Within(t, Cardinality(DOMAIN t))

RECURSIVE AtLeastTwo(_)
AtLeastTwo(pairs) ==
    IF pairs = <<>> THEN <<>>
    ELSE IF Head(pairs)[2] >= 2 THEN <<Head(pairs)>> \o AtLeastTwo(Tail(pairs))
    ELSE AtLeastTwo(Tail(pairs))

C7_CleanReturnsRemoved ==
    [][(DoClean /\ fatal' = "") =>
          /\ last'.op = "clean"
          /\ DOMAIN entries' \subseteq DOMAIN entries
          /\ last'.ret = Cardinality(DOMAIN entries \ DOMAIN entries')
          /\ last'.ret = Cardinality(DOMAIN entries) - Cardinality(DOMAIN entries')]_vars

\* C7 witness: clean dropped a (Start, k) context together with contexts
\* behind it.
C7_Witness ==
    /\ last.op = "clean"
    /\ last.ret >= 3
    /\ entries # << >>

\* A generator standing at the context cw, and what one Chain::next call can
\* make of it, one result per index the distribution can draw.
ChainAt(cw) == [alive |-> TRUE, cur_words |-> cw, rets |-> <<>>]

StepResults(t, cw) == {ChainNext(t, ChainAt(cw), i) : i \in Draws(t, ChainAt(cw))}

\* The contexts a generator over t can stand at, from (Start, Start) on.
RECURSIVE GenClosure(_, _)
GenClosure(t, S) ==
    LET N == S \cup {r.chain.cur_words : r \in UNION {StepResults(t, c) : c \in S}}
    IN  IF N = S THEN S ELSE GenClosure(t, N)

GenReach(t) == GenClosure(t, {START_WORDS})

\* The contexts of R from which some run of steps returns end-of-sequence.
RECURSIVE EndClosure(_, _, _)
EndClosure(t, R, T) ==
    LET N == {c \in R : \E r \in StepResults(t, c) :
                 /\ r.fatal = ""
                 /\ r.chain.rets = <<None>> \/ r.chain.cur_words \in T}
    IN  IF N = T THEN T ELSE EndClosure(t, R, N)

CanEnd(t) == EndClosure(t, GenReach(t), {})

\* No step of a generator over t samples Start.
NeverSamplesStart(t) ==
    \A c \in GenReach(t) : \A r \in StepResults(t, c) : r.fatal # "unreachable"

\* C8: Start is never stored as a successor and End is never an element of a
\* context key, so no generator samples Start.
C8_StartEndPlacement ==
    /\ \A c \in DOMAIN entries :
          /\ c[1] # End /\ c[2] # End
          /\ \A i \in 1..Len(entries[c].weight_pairs) :
                entries[c].weight_pairs[i][1] # Start
    /\ NeverSamplesStart(entries)
    /\ fatal # "unreachable"

\* C8 witness: a generator has made two steps over a table clean has pruned.
C8_Witness ==
    /\ last.op = "clean"
    /\ last.ret >= 1
    /\ chain.alive
    /\ Len(chain.rets) >= 2
    /\ chain.rets[1] # None

\* C9: from every context a generator can stand at, a step that ends the
\* sequence (End sampled, or the context absent) can be reached.
C9_GeneratorCanEnd ==
    fatal = "" =>
        /\ CanEnd(entries) = GenReach(entries)
        /\ chain.alive => chain.cur_words \in CanEnd(entries)

\* C9 witness: a generator stands in the loop at (a, a) of a table clean has
\* pruned.
C9_Witness ==
    /\ last.op = "clean"
    /\ last.ret >= 1
    /\ chain.alive
    /\ chain.cur_words = <<Word("a"), Word("a")>>
    /\ chain.cur_words \in DOMAIN entries
    /\ WeightOf(entries[chain.cur_words], Word("a")) >= 1
    /\ Len(chain.rets) >= 3

\* Some run from the context cw yields seq[k], seq[k+1], ... and then ends by
\* sampling End.
RECURSIVE CanYield(_, _, _, _)
CanYield(t, cw, seq, k) ==
    \E r \in StepResults(t, cw) :
        /\ r.fatal = ""
        /\ cw \in DOMAIN t
        /\ IF k > Len(seq)
           THEN r.chain.rets = <<None>> /\ r.chain.cur_words = <<cw[2], End>>
           ELSE /\ r.chain.rets = <<Some(seq[k])>>
                /\ CanYield(t, r.chain.cur_words, seq, k + 1)

\* C10: over a table built by insert_sequence alone, every inserted sequence
\* is the complete output of some run of the generator, ended by sampling End,
\* and no run yields Start.
C10_InsertedCanBeGenerated ==
    ~cleaned =>
        /\ \A seq \in inserted : CanYield(entries, START_WORDS, seq, 1)
        /\ NeverSamplesStart(entries)
        /\ fatal = ""
        /\ \A i \in 1..Len(chain.rets) :
              chain.rets[i] = None \/ chain.rets[i] \in {Some(w) : w \in Strings}

\* C10 witness: a generator has yielded an inserted sequence and ended, over a
\* table that also holds the long sequence.
C10_Witness ==
    /\ ~cleaned
    /\ chain.alive
    /\ chain.rets = <<Some("b"), None>>
    /\ chain.cur_words = <<Word("b"), End>>
    /\ <<"b">> \in inserted
    /\ DeepSeq \in inserted

\* ------------------------------------------------------------------ queries
\* The strings the Word successors of an entry hold.
WordsOf(e) ==
    {TextOf(e.weight_pairs[i][1]) :
        i \in {j \in 1..Len(e.weight_pairs) : IsWord(e.weight_pairs[j][1])}}

\* Mutant: the context is matched on its first element.
WhatFollows_MatchFirst(t, text) ==
    UNION {WordsOf(t[c]) : c \in {k \in DOMAIN t : k[1] = Word(text)}}

\* Markov::what_follows
WhatFollows(t, text) ==
    UNION {WordsOf(t[c]) : c \in {k \in DOMAIN t : k[2] = Word(text)}}

\* Mutant: the End successor is reported as a word too.
WhatStarts_WithEnd(t) ==
    IF START_WORDS \in DOMAIN t
    THEN {LET w == t[START_WORDS].weight_pairs[i][1] IN w[Len(w)] :
             i \in 1..Len(t[START_WORDS].weight_pairs)}
    ELSE {}

\* Markov::what_starts
WhatStarts(t) == IF START_WORDS \in DOMAIN t THEN WordsOf(t[START_WORDS]) ELSE {}

\* The strings what_follows is asked about: the words inserted, and two that
\* spell the sentinels.
QueryStrings == Strings \cup {"Start", "End"}

DoWhatFollows(text) ==
    /\ fatal = ""
    /\ last' = [op |-> "what_follows", arg |-> text, ret |-> WhatFollows(entries, text)]
    /\ UNCHANGED <<entries, chain, fatal, nops, ncalls, inserted, cleaned>>

DoWhatStarts ==
    /\ fatal = ""
    /\ last' = [op |-> "what_starts", ret |-> WhatStarts(entries)]
    /\ UNCHANGED <<entries, chain, fatal, nops, ncalls, inserted, cleaned>>

\* C11: over a table built by insert_sequence alone, what_follows(w) is the
\* set of words that come right after w in some inserted sequence; a word
\* never inserted, or only ever last, gives the empty set.
C11_WhatFollows ==
    (last.op = "what_follows" /\ ~cleaned) =>
        last.ret = {x \in Strings :
                       \E seq \in inserted : \E i \in 1..(Len(seq) - 1) :
                           seq[i] = last.arg /\ seq[i + 1] = x}

\* C11 witness: what_follows("b") answered {"a", "b"} over a table holding the
\* long sequence and a one-word one.
C11_Witness ==
    /\ last.op = "what_follows"
    /\ ~cleaned
    /\ last.arg = "b"
    /\ last.ret = {"a", "b"}
    /\ Cardinality(inserted) >= 2

\* C12: over a table built by insert_sequence alone, what_starts() is the set
\* of first words of the non-empty inserted sequences, and the empty set when
\* there is no (Start, Start) context.
C12_WhatStarts ==
    (last.op = "what_starts" /\ ~cleaned) =>
        /\ last.ret = {seq[1] : seq \in {s \in inserted : Len(s) >= 1}}
        /\ START_WORDS \notin DOMAIN entries => last.ret = {}

\* C12 witness: what_starts() answered {"a", "b"} over a table that also took
\* the empty sequence.
C12_Witness ==
    /\ last.op = "what_starts"
    /\ ~cleaned
    /\ last.ret = {"a", "b"}
    /\ <<>> \in inserted

\* ------------------------------------------------------------ serialization
\* Largest weight in a persisted Token-to-weight mapping handed to try_from.
MaxWeight == 2

\* Mutant: only the first pair reaches the mapping.
EntryToMap_FirstOnly(e) ==
    [t \in {e.weight_pairs[i][1] : i \in 1..(IF Len(e.weight_pairs) > 0 THEN 1 ELSE 0)} |->
        e.weight_pairs[1][2]]

\* From<Entry> for HashMap<Word, usize>: the pairs collected into a mapping, a
\* later pair of the same token replacing an earlier one.
EntryToMap(e) ==
    [t \in {e.weight_pairs[i][1] : i \in 1..Len(e.weight_pairs)} |->
        LET hits == {i \in 1..Len(e.weight_pairs) : e.weight_pairs[i][1] = t}
        IN  e.weight_pairs[CHOOSE i \in hits : \A j \in hits : j <= i][2]]

\* The orders a HashMap can be iterated in: each is an order of all tokens, and
\* a mapping is walked in that order of its keys.
Orders == {f \in [1..Cardinality(Tokens) -> Tokens] : \A i, j \in DOMAIN f : f[i] = f[j] => i = j}

\* TryFrom<HashMap<Word, usize>> for Entry, the mapping iterated in order:
\* Err when WeightedIndex::new refuses the weights.
TryFromMap(map, order) ==
    LET keys == SelectSeq(order, LAMBDA t : t \in DOMAIN map)
        weight_pairs == [i \in 1..Len(keys) |-> <<keys[i], map[keys[i]]>>]
        dist == WeightedIndexNew(Weights(weight_pairs))
    IN  IF dist.ok
        THEN [ok |-> TRUE, entry |-> [weight_pairs |-> weight_pairs, dist |-> dist.dist]]
        ELSE [ok |-> FALSE, entry |-> [weight_pairs |-> <<>>, dist |-> <<>>]]

\* Serialize for Markov (transparent): each entry as its mapping.
Serialize(t) == [c \in DOMAIN t |-> EntryToMap(t[c])]

\* Deserialize for Markov: every entry rebuilt by try_from; one Err fails the
\* whole table.
Deserialize(maps, order) ==
    LET rs == [c \in DOMAIN maps |-> TryFromMap(maps[c], order)]
    IN  IF \A c \in DOMAIN maps : rs[c].ok
        THEN [ok |-> TRUE, entries |-> [c \in DOMAIN maps |-> rs[c].entry]]
        ELSE [ok |-> FALSE, entries |-> << >>]

\* The persisted mappings handed to try_from: any tokens, weights from 0 on.
MapInputs == UNION {[S -> 0..MaxWeight] : S \in SUBSET Tokens}

\* The table written out and read back into a table of its own.
DoRoundTrip(order) ==
    /\ fatal = ""
    /\ last' = [op |-> "roundtrip", ret |-> Deserialize(Serialize(entries), order)]
    /\ UNCHANGED <<entries, chain, fatal, nops, ncalls, inserted, cleaned>>

\* A persisted mapping waits to be rebuilt into an entry.
InitTryFrom ==
    /\ entries = MarkovNew
    /\ chain = NoChain
    /\ fatal = ""
    /\ \E map \in MapInputs : last = [op |-> "persisted", arg |-> map]
    /\ nops = 0
    /\ ncalls = << >>
    /\ inserted = {}
    /\ cleaned = FALSE

DoTryFrom(order) ==
    /\ fatal = ""
    /\ last.op = "persisted"
    /\ last' = [op |-> "try_from", arg |-> last.arg,
                ret |-> TryFromMap(last.arg, order)]
    /\ UNCHANGED <<entries, chain, fatal, nops, ncalls, inserted, cleaned>>

\* Training, pruning, the two queries and saving and loading.
NextApi ==
    \/ \E seq \in SeqInputs : DoInsertSequence(seq)
    \/ DoClean
    \/ \E text \in QueryStrings : DoWhatFollows(text)
    \/ DoWhatStarts
    \/ \E order \in Orders : DoRoundTrip(order)

SpecApi == Init /\ [][NextApi]_vars

\* Entries rebuilt from persisted mappings.
NextTryFrom == \E order \in Orders : DoTryFrom(order)

SpecTryFrom == InitTryFrom /\ [][NextTryFrom]_vars

\* The tokens an entry holds a pair for.
SuccessorsOf(e) == {e.weight_pairs[i][1] : i \in 1..Len(e.weight_pairs)}

\* C13: a reachable table written out and read back loads, and the loaded
\* table has the same contexts and, per context, the same successor tokens
\* with the same weights.
C13_RoundTrip ==
    (last.op = "roundtrip" /\ fatal = "") =>
        /\ last.ret.ok
        /\ DOMAIN last.ret.entries = DOMAIN entries
        /\ \A c \in DOMAIN entries :
              /\ SuccessorsOf(last.ret.entries[c]) = SuccessorsOf(entries[c])
              /\ Len(last.ret.entries[c].weight_pairs) = Len(entries[c].weight_pairs)
              /\ \A t \in Tokens :
                    WeightOf(last.ret.entries[c], t) = WeightOf(entries[c], t)

\* C13 witness: a pruned table of three or more contexts came back with the
\* pairs of an entry in another order.
C13_Witness ==
    /\ last.op = "roundtrip"
    /\ cleaned
    /\ last.ret.ok
    /\ Cardinality(DOMAIN entries) >= 3
    /\ \E c \in DOMAIN entries :
          /\ Len(entries[c].weight_pairs) >= 2
          /\ last.ret.entries[c].weight_pairs # entries[c].weight_pairs

\* C14: try_from fails when the mapping is empty or holds a zero weight (beside
\* positive ones or not) and succeeds only on a non-empty mapping of weights
\* all 1 or more.
C14_TryFromRejectsZero ==
    last.op = "try_from" =>
        (last.ret.ok <=>
            (DOMAIN last.arg # {} /\ \A t \in DOMAIN last.arg : last.arg[t] >= 1))

\* C15: after every call that completes, and in every table read back, the
\* distribution of each entry has one weight per pair, the i-th being the
\* weight of the i-th pair.
C15_DistMatchesPairs ==
    fatal = "" =>
        /\ \A c \in DOMAIN entries :
              entries[c].dist = Weights(entries[c].weight_pairs)
        /\ (last.op = "roundtrip" /\ last.ret.ok) =>
              \A c \in DOMAIN last.ret.entries :
                  last.ret.entries[c].dist = Weights(last.ret.entries[c].weight_pairs)

\* C15 witness: a table clean has pruned, holding an entry with a pair counted
\* up in place beside a pair appended later, has been read back.
C15_Witness ==
    /\ last.op = "roundtrip"
    /\ last.ret.ok
    /\ cleaned
    /\ START_WORDS \in DOMAIN entries
    /\ \E c \in DOMAIN entries :
          /\ Len(entries[c].weight_pairs) >= 2
          /\ entries[c].weight_pairs[1][2] >= 2

\* C16: clean leaves the pairs and weights of every kept context other than
\* (Start, Start) as they were, weights of 1 included.
C16_CleanLeavesOtherEntries ==
    [][DoClean =>
          \A c \in DOMAIN entries' \ {START_WORDS} :
              c \in DOMAIN entries /\ entries'[c] = entries[c]]_vars

\* C16 witness: clean dropped a context and kept one, other than
\* (Start, Start), that holds a successor of weight 1.
C16_Witness ==
    /\ last.op = "clean"
    /\ last.ret >= 1
    /\ \E c \in DOMAIN entries \ {START_WORDS} :
          \E i \in 1..Len(entries[c].weight_pairs) : entries[c].weight_pairs[i][2] = 1

\* The k-th token a generator yielded, Start before the first.
YieldedToken(rets, k) == IF k <= 0 THEN Start ELSE Word(rets[k][2])

\* Every word yielded is stored as a successor of the context made of the two
\* tokens yielded before it.
YieldsAreRecorded(t, rets) ==
    \A k \in 1..Len(rets) :
        rets[k] # None =>
            LET c == <<YieldedToken(rets, k - 2), YieldedToken(rets, k - 1)>>
            IN  c \in DOMAIN t /\ WeightOf(t[c], Word(rets[k][2])) >= 1

\* C17: a step that finds the current context (a, b) stored samples a
\* successor s of it of weight 1 or more, moves to (b, s), yields s when it is
\* a word and ends the sequence when it is End; a step that finds the context
\* absent ends the sequence and stays where it is.
C17_StepFollowsTable ==
    [][DoNext =>
          /\ IF chain.cur_words \in DOMAIN entries
             THEN \E s \in Tokens :
                     /\ WeightOf(entries[chain.cur_words], s) >= 1
                     /\ chain'.cur_words = <<chain.cur_words[2], s>>
                     /\ IsWord(s) => chain'.rets = Append(chain.rets, Some(TextOf(s)))
                     /\ s = End => chain'.rets = Append(chain.rets, None)
                     /\ IsWord(s) \/ s = End
             ELSE /\ chain'.rets = Append(chain.rets, None)
                  /\ chain'.cur_words = chain.cur_words
          /\ fatal' = ""
          /\ YieldsAreRecorded(entries, chain'.rets)]_vars

\* C17 witness: over a table where (Start, a) has two successors, a generator
\* yielded a word and then sampled End.
C17_Witness ==
    /\ chain.alive
    /\ <<Start, Word("a")>> \in DOMAIN entries
    /\ Len(entries[<<Start, Word("a")>>].weight_pairs) = 2
    /\ Len(chain.rets) = 2
    /\ chain.rets[1] = Some("a")
    /\ chain.rets[2] = None
    /\ chain.cur_words = <<Word("a"), End>>

\* C18: a clean called right after a clean that returned returns 0 and leaves
\* the table as it is.
C18_CleanIdempotent ==
    [][(DoClean /\ last.op = "clean") =>
          /\ fatal' = ""
          /\ last'.ret = 0
          /\ entries' = entries]_vars

\* C18 witness: clean returned 0 on a table whose start entry is already
\* pruned down to one successor of weight 2.
C18_Witness ==
    /\ last.op = "clean"
    /\ last.ret = 0
    /\ nops = 3
    /\ START_WORDS \in DOMAIN entries
    /\ Len(entries[START_WORDS].weight_pairs) = 1
    /\ entries[START_WORDS].weight_pairs[1][2] = 2
    /\ Cardinality(DOMAIN entries) >= 2

\* C19: for every stored context (a, b) and word successor w of it, (b, w) is
\* stored; so a generator over a table holding (Start, Start) stands at a
\* stored context until it has sampled End.
C19_SuccessorClosure ==
    /\ \A c \in DOMAIN entries : \A w \in SuccessorsOf(entries[c]) :
          IsWord(w) => <<c[2], w>> \in DOMAIN entries
    /\ (fatal = "" /\ chain.alive /\ START_WORDS \in DOMAIN entries) =>
          IF \E k \in 1..Len(chain.rets) : chain.rets[k] = None
          THEN chain.cur_words[2] = End
          ELSE chain.cur_words \in DOMAIN entries

\* C19 witness: over a table clean has pruned, a generator yielded a word and
\* ended by sampling End.
C19_Witness ==
    /\ last.op = "clean"
    /\ last.ret >= 1
    /\ Cardinality(DOMAIN entries) = 2
    /\ chain.alive
    /\ Len(chain.rets) = 2
    /\ chain.rets[1] # None /\ chain.rets[2] = None
    /\ chain.cur_words[2] = End

\* C20: once a step of a generator has returned end-of-sequence, every later
\* step of it returns end-of-sequence too.
C20_StaysFinished ==
    \A i, j \in 1..Len(chain.rets) :
        (i < j /\ chain.rets[i] = None) => chain.rets[j] = None

\* C20 witness: a generator yielded a word, ended by sampling End, and was
\* stepped twice more.
C20_Witness ==
    /\ chain.alive
    /\ START_WORDS \in DOMAIN entries
    /\ Len(chain.rets) = 4
    /\ chain.rets[1] # None
    /\ chain.rets[2] = None /\ chain.rets[3] = None /\ chain.rets[4] = None

====
